---- MODULE Spec2Model ----
(***************************************************************************)
(* A model of the inference gateway of GC-Forged-Pylot:                    *)
(*   - ModelCache (src/src/core/server.py), the response cache;            *)
(*   - the request handlers of LlamaServer (POST /v1/completions,          *)
(*     POST /v1/chat/completions, LlamaServer.generate) and the streaming  *)
(*     generators (_streaming_completion, _streaming_chat);                *)
(*   - the two backends behind _llm_instance, LLamaLLM and                 *)
(*     ExternalLLMAdapter, by the results their generate/chat can give.    *)
(***************************************************************************)
EXTENDS Integers, Sequences, FiniteSets, TLC

\* ------------------------------------------------------------------ bounds

\* Number of distinct cache keys (values of ModelCache.get_key) in play.
NumKeys == 3

\* The clock (time.time()) runs from 0 to MaxTime.
MaxTime == 1

\* ModelCache is constructed with max_size in 0..MaxCapacity.
MaxCapacity == 2

\* ModelCache is constructed with ttl in 0..MaxTtl.
MaxTtl == 1

\* hits + misses is explored up to MaxCount.
MaxCount == 2

\* Number of requests the gateway receives.
NumReq == 2

\* A streaming generator pulls at most MaxChunks chunks from the backend.
MaxChunks == 1

\* LlamaServer is constructed with cache_size in 0..MaxCacheSize.
MaxCacheSize == 1

Keys == 1..NumKeys

\* No key: the "evicted" field of a set that evicted nothing.
NoKey == 0

\* Python's None, as the result of ModelCache.get.
None == [obj |-> "None", text |-> ""]

\* The value the cache-only specification stores (ModelCache never reads it).
CacheValues == {[obj |-> "str", text |-> "x"]}

VARIABLES
    cache,      \* ModelCache.cache: the dict, as the sequence of its items in
                \* insertion order, each [key, value, timestamp]
    max_size,   \* ModelCache.max_size
    ttl,        \* ModelCache.ttl
    hits,       \* ModelCache.hits
    misses,     \* ModelCache.misses
    now,        \* time.time()
    last,       \* history: the most recent ModelCache call and what it returned
    touched,    \* history: per key in the cache, the time of its most recent
                \* get-hit or set (-1: not in the cache)
    llm,        \* LlamaServer._llm_instance: "none", "native" (LLamaLLM) or
                \* "remote" (ExternalLLMAdapter)
    api_keys,   \* the api_keys argument of LlamaServer.__init__: "none", a
                \* non-empty "list", or a non-empty "mapping"
    req,        \* per request: where its handler stands and what it has done
    lookups,    \* ModelCache.get_key at work: the requests served so far, the
                \* keys under which their responses are stored, and how each
                \* was served
    remote,     \* one ExternalLLMAdapter.generate call: what the upstream does at
                \* each attempt, the attempts made, what _make_request gave and
                \* what generate returned
    sse,        \* one ExternalLLMProxy._stream_completion generator: the upstream's
                \* status and lines, the lines read, and the chunks yielded, each
                \* with the number of the line it was yielded for
    native,     \* one LLamaLLM and its model "m": the holder of self.lock (0:
                \* free), the handles created, the handle in self.models (0: the
                \* model is not in it), active_model (0: None), active_model_name
                \* ("": None), and the method each calling thread is in
    server,     \* one LlamaServer through start and stop: running, whether
                \* server_thread was started, whether _llm_instance is set, what the
                \* last start or stop did, the requests inside a backend call,
                \* _active_connections, per WebSocket connection its state and
                \* the frames sent on it, self.config and the config last returned
    streaming,  \* one streaming request and its client: the backend behind it, the
                \* state of its generator, whether the client has disconnected, the
                \* tokens the backend has produced, those produced after the
                \* disconnect, and the finish_reason that ended the backend stream
    optimizer   \* HardwareOptimizer instances over one profile file: the hardware
                \* detect_hardware finds, the file, per instance where it stands,
                \* what it read and its profile; and one run_benchmark call with
                \* its server process

cacheVars == <<cache, max_size, ttl, hits, misses, now, last, touched>>

gatewayVars == <<llm, api_keys, req>>

\* The components that are modelled each on its own.
partVars == <<lookups, remote, sse, native, server, streaming, optimizer>>

vars == <<cache, max_size, ttl, hits, misses, now, last, touched, llm, api_keys, req,
          lookups, remote, sse, native, server, streaming,
         optimizer>>

\* An action of the component `part` leaves everything else as it is.
Untouched(part) ==
    /\ UNCHANGED <<cacheVars, gatewayVars>>
    /\ part = "lookups" \/ UNCHANGED lookups
    /\ part = "remote" \/ UNCHANGED remote
    /\ part = "sse" \/ UNCHANGED sse
    /\ part = "native" \/ UNCHANGED native
    /\ part = "server" \/ UNCHANGED server
    /\ part = "streaming" \/ UNCHANGED streaming
    /\ part = "optimizer" \/ UNCHANGED optimizer

\* ------------------------------------------------------------- ModelCache

\* key in self.cache
HasKey(c, k) == \E i \in 1..Len(c) : c[i].key = k

\* the position of key k in the dict's order
IndexOf(c, k) == CHOOSE i \in 1..Len(c) : c[i].key = k

\* del self.cache[k]
Remove(c, k) == SelectSeq(c, LAMBDA e : e.key # k)

\* Fresh with the expiry test dropped.
FreshAlways(e, t, life) == TRUE

\* time.time() - timestamp <= self.ttl
Fresh(e, t, life) == t - e.timestamp <= life

\* ModelCache.get returns a value (a hit): the key is present and unexpired.
GetHit(c, k, t, life) == HasKey(c, k) /\ Fresh(c[IndexOf(c, k)], t, life)

\* What ModelCache.get returns.
GetResult(c, k, t, life) ==
    IF GetHit(c, k, t, life) THEN c[IndexOf(c, k)].value ELSE None

\* The dict after ModelCache.get: an expired entry is deleted.
CacheAfterGet(c, k, t, life) ==
    IF HasKey(c, k) /\ ~Fresh(c[IndexOf(c, k)], t, life) THEN Remove(c, k) ELSE c

\* OldestIndex taking the newest item instead of the oldest.
NewestIndex(c) ==
    CHOOSE i \in 1..Len(c) :
        \A j \in 1..Len(c) :
            \/ c[i].timestamp > c[j].timestamp
            \/ (c[i].timestamp = c[j].timestamp /\ i >= j)

\* min(self.cache.items(), key=lambda x: x[1][1]): the first item, in the dict's
\* order, among those with the smallest timestamp.
OldestIndex(c) ==
    CHOOSE i \in 1..Len(c) :
        \A j \in 1..Len(c) :
            \/ c[i].timestamp < c[j].timestamp
            \/ (c[i].timestamp = c[j].timestamp /\ i <= j)

\* AtCapacity with > for >=.
AtCapacityOffByOne(c, cap) == Len(c) > cap

\* len(self.cache) >= self.max_size
AtCapacity(c, cap) == Len(c) >= cap

\* ModelCache.set raises ValueError: min() of an empty dict.
SetRaises(c, cap) == AtCapacity(c, cap) /\ Len(c) = 0

\* The key ModelCache.set deletes before it stores (NoKey: none).
EvictedKey(c, cap) ==
    IF AtCapacity(c, cap) /\ Len(c) > 0 THEN c[OldestIndex(c)].key ELSE NoKey

\* self.cache[key] = (value, time.time()): a present key keeps its place in
\* the dict's order, a new one goes last.
Put(c, k, v, t) ==
    LET e == [key |-> k, value |-> v, timestamp |-> t]
    IN  IF HasKey(c, k) THEN [c EXCEPT ![IndexOf(c, k)] = e] ELSE Append(c, e)

\* The dict after ModelCache.set.
CacheAfterSet(c, k, v, t, cap) ==
    IF SetRaises(c, cap) THEN c
    ELSE LET ev == EvictedKey(c, cap)
         IN  Put(IF ev = NoKey THEN c ELSE Remove(c, ev), k, v, t)

NoCall == [op |-> "none", key |-> NoKey, hit |-> FALSE, evicted |-> NoKey,
           raised |-> FALSE]

\* touched after the keys of c that are gone from d are forgotten
Forget(tch, d) == [k \in Keys |-> IF HasKey(d, k) THEN tch[k] ELSE -1]

\* ModelCache.__init__
CacheInit ==
    /\ cache = <<>>
    /\ max_size \in 0..MaxCapacity
    /\ ttl \in 0..MaxTtl
    /\ hits = 0
    /\ misses = 0
    /\ now = 0
    /\ last = NoCall
    /\ touched = [k \in Keys |-> -1]

\* What a call of ModelCache.get(key) does to the object.
CacheGet(k) ==
    LET hit == GetHit(cache, k, now, ttl)
    IN  /\ cache' = CacheAfterGet(cache, k, now, ttl)
        /\ hits' = IF hit THEN hits + 1 ELSE hits
        /\ misses' = IF hit THEN misses ELSE misses + 1
        /\ UNCHANGED <<max_size, ttl>>

\* What a call of ModelCache.set(key, value) does to the object.
CacheSet(k, v) ==
    /\ cache' = CacheAfterSet(cache, k, v, now, max_size)
    /\ UNCHANGED <<max_size, ttl, hits, misses>>

\* ModelCache.get(key), called on the cache alone, with its history
Get(k) ==
    /\ hits + misses < MaxCount
    /\ CacheGet(k)
    /\ LET hit == GetHit(cache, k, now, ttl)
       IN  /\ last' = [NoCall EXCEPT !.op = "get", !.key = k, !.hit = hit]
           /\ touched' = [Forget(touched, cache') EXCEPT
                             ![k] = IF hit THEN now ELSE @]
    /\ UNCHANGED <<now, gatewayVars, partVars>>

\* ModelCache.set(key, value), called on the cache alone, with its history
Set(k, v) ==
    /\ CacheSet(k, v)
    /\ last' = [NoCall EXCEPT !.op = "set", !.key = k,
                   !.evicted = EvictedKey(cache, max_size),
                   !.raised = SetRaises(cache, max_size)]
    /\ touched' = [Forget(touched, cache') EXCEPT
                      ![k] = IF SetRaises(cache, max_size) THEN @ ELSE now]
    /\ UNCHANGED <<now, gatewayVars, partVars>>

\* ModelCache.clear()
Clear ==
    /\ cache' = <<>>
    /\ last' = [NoCall EXCEPT !.op = "clear"]
    /\ touched' = [k \in Keys |-> -1]
    /\ UNCHANGED <<max_size, ttl, hits, misses, now, gatewayVars, partVars>>

\* The clock advances. Time is counted from the first store: over an empty
\* cache the passing of time changes nothing that get or set can tell.
Tick ==
    /\ now < MaxTime
    /\ Len(cache) > 0
    /\ now' = now + 1
    /\ UNCHANGED <<cache, max_size, ttl, hits, misses, last, touched, gatewayVars,
                   partVars>>

\* ModelCache alone: any sequence of get/set/clear calls and clock advances.
CacheNext ==
    \/ \E k \in Keys : Get(k)
    \/ \E k \in Keys, v \in CacheValues : Set(k, v)
    \/ Clear
    \/ Tick

\* A request that has not arrived.
IdleRequest ==
    [pc |-> "idle", via |-> "none", stream |-> FALSE, key |-> NoKey,
     lookup |-> "none", frames |-> <<>>]

\* A request that has been answered: its handler's locals are gone.
DoneRequest == [IdleRequest EXCEPT !.pc = "done"]

\* A component that the specification at hand leaves out.
Absent == <<>>

\* No request has been keyed.
NoLookups == [sent |-> <<>>, stored |-> {}, served |-> <<>>]

\* No call to the external API is under way.
NoRemote ==
    [pc |-> "idle", plan |-> <<>>, tries |-> 0, result |-> "none",
     response |-> [text |-> "", error |-> "none", finish_reason |-> "none"]]

\* No upstream stream is being read.
NoStream == [pc |-> "idle", status |-> 0, lines |-> <<>>, pos |-> 0, yielded |-> <<>>]

\* No LLamaLLM has been constructed.
NoNative == [lock |-> 0, made |-> 0, handle |-> 0, active_model |-> 0, active_model_name |-> "", pc |-> <<>>]

\* No LlamaServer whose start, stop and WebSocket endpoint are followed.
NoServer == [running |-> FALSE, thread |-> FALSE, loaded |-> FALSE, loadable |-> FALSE, fastapi |-> FALSE, last |-> "none", incall |-> 0, connections |-> {}, conns |-> <<>>, config |-> <<>>, view |-> <<>>]

\* Every component modelled on its own, except `part`, is at rest.
Alone(part) ==
    /\ part = "lookups" \/ lookups = Absent
    /\ part = "remote" \/ remote = Absent
    /\ part = "sse" \/ sse = Absent
    /\ part = "native" \/ native = Absent
    /\ part = "server" \/ server = Absent
    /\ part = "streaming" \/ streaming = Absent
    /\ part = "optimizer" \/ optimizer = Absent

\* No LlamaServer: the cache stands alone.
NoGateway ==
    /\ llm = "none"
    /\ api_keys = "none"
    /\ req = [r \in 1..NumReq |-> IdleRequest]
    /\ Alone("gateway")

\* ModelCache constructed on its own
InitCache == CacheInit /\ NoGateway

SpecCache == InitCache /\ [][CacheNext]_vars

\* ---------------------------------------------------------------- backends

\* LlamaServer.__init__ returns: `**(api_keys or {})` raises TypeError on a
\* non-empty list, so no server exists under that configuration.
Constructed == api_keys # "list"

\* What one non-streaming generate/chat call of the backend can give:
\*   "ok"      an LLMResponse with text,
\*   "empty"   an LLMResponse whose text is "",
\*   "errmeta" an LLMResponse reporting a failure in metadata["error"],
\*   "raise"   an exception (LLamaLLM only: no active model).
BackendResults(b) ==
    IF b = "native" THEN {"ok", "empty", "errmeta", "raise"}
    ELSE {"ok", "empty", "errmeta"}

\* LLMResponse.text of a backend result.
Text(outcome) ==
    CASE outcome = "ok" -> "x"
      [] outcome = "empty" -> ""
      [] OTHER -> "err"

\* The backend reported or raised a failure.
Failure(outcome) == outcome \in {"errmeta", "raise"}

\* What a handler stores in the cache and returns: the response dict of
\* create_completion / create_chat_completion, response.text of generate.
Body(via, outcome) ==
    [obj  |-> CASE via = "completion" -> "text_completion"
                [] via = "chat" -> "chat.completion"
                [] OTHER -> "str",
     text |-> Text(outcome)]

\* Python truth of a value returned by ModelCache.get: `if cached_result:`.
Truthy(v) == v.obj # "None" /\ (v.obj = "str" => v.text # "")

\* UsesCache with the stream test dropped.
UsesCacheAlways(stream) == TRUE

\* `if not request.stream:` / `if not stream:` around the cache calls.
UsesCache(stream) == ~stream

\* The chunks a backend stream yields, as LLMResponse(text, metadata):
\* a token chunk, a chunk with a finish_reason, and the chunk the adapter
\* yields when the stream fails (metadata["error"], no finish_reason).
TokChunk == [text |-> "x", finish_reason |-> "", error |-> FALSE]
FinChunk == [text |-> "x", finish_reason |-> "stop", error |-> FALSE]
ErrChunk == [text |-> "err", finish_reason |-> "", error |-> TRUE]
Chunks == {TokChunk, FinChunk, ErrChunk}

\* The SSE frames: `data: {chunk}`, `data: {"error": ...}`, `data: [DONE]`.
DataFrame(chunk) ==
    [kind |-> "data", text |-> chunk.text, finish_reason |-> chunk.finish_reason]
ErrorFrame == [kind |-> "error", text |-> "err", finish_reason |-> ""]
DoneFrame == [kind |-> "done", text |-> "", finish_reason |-> ""]

\* ---------------------------------------------------------------- requests

\* The handlers of the FastAPI app run on one event loop and never await
\* between their cache lookup and their return: while one is in its backend
\* call no other handler or generator of the app runs.
LoopFree == \A r \in 1..NumReq : req[r].via \in {"completion", "chat"} => req[r].pc # "calling"

\* Requests are numbered in order of arrival.
NextToArrive(r) == req[r].pc = "idle" /\ \A q \in 1..(r - 1) : req[q].pc # "idle"

\* Cache keys are named in order of first use.
KeysFor(r) == {k \in Keys : k <= r}

\* Whether a request carries a Bearer key of the configured list; without a
\* configured list no key is one of it.
Credentials == IF api_keys = "none" THEN {FALSE} ELSE BOOLEAN


\* What a handler answers: an HTTP status (0 for LlamaServer.generate, which
\* returns) and a body (None: no body, generate's None).
Answer(status, body) == [status |-> status, body |-> body]

\* The answer of the start of a handler, if it answers there: 503 (None from
\* generate) without a backend, the cached value when the lookup's result is
\* truthy; NoAnswer when the handler goes on.
NoAnswer == Answer(-1, None)
BeginAnswer(via, stream, k) ==
    IF llm = "none" THEN Answer(IF via = "direct" THEN 0 ELSE 503, None)
    ELSE IF UsesCache(stream) /\ Truthy(GetResult(cache, k, now, ttl))
    THEN Answer(IF via = "direct" THEN 0 ELSE 200, GetResult(cache, k, now, ttl))
    ELSE NoAnswer

\* The start of a handler (auth: the request carries a listed key, which no
\* handler reads): the backend check, then for a non-streaming
\* request the key, the cache lookup and, on a truthy result, the return; a
\* streaming request computes no key and goes to its generator.
Begin(r, via, stream, k, auth) ==
    LET key == IF UsesCache(stream) THEN k ELSE NoKey
        new == [IdleRequest EXCEPT !.via = via, !.stream = stream, !.key = key]
    IN  /\ Constructed
        /\ NextToArrive(r)
        /\ IF llm = "none"
           THEN /\ req' = [req EXCEPT ![r] = DoneRequest]
                /\ UNCHANGED cacheVars
           ELSE IF UsesCache(stream)
           THEN /\ CacheGet(key)
                /\ req' = [req EXCEPT ![r] =
                      IF BeginAnswer(via, stream, key) # NoAnswer THEN DoneRequest
                      ELSE [new EXCEPT !.pc = "calling",
                               !.lookup = IF GetHit(cache, key, now, ttl)
                                          THEN "hit" ELSE "miss"]]
                /\ UNCHANGED <<now, last, touched>>
           ELSE /\ req' = [req EXCEPT ![r] = [new EXCEPT !.pc =
                             IF via = "direct" THEN "calling" ELSE "open"]]
                /\ UNCHANGED cacheVars
        /\ UNCHANGED <<llm, api_keys, partVars>>

\* POST /v1/completions up to its backend call
create_completion(r) ==
    /\ LoopFree
    /\ \E stream \in BOOLEAN, k \in KeysFor(r), auth \in Credentials :
           Begin(r, "completion", stream, k, auth)

\* POST /v1/chat/completions up to its backend call
create_chat_completion(r) ==
    /\ LoopFree
    /\ \E stream \in BOOLEAN, k \in KeysFor(r), auth \in Credentials :
           Begin(r, "chat", stream, k, auth)

\* LlamaServer.generate up to its backend call, on the caller's thread
generate(r) ==
    /\ Constructed
    /\ \E stream \in BOOLEAN, k \in KeysFor(r) : Begin(r, "direct", stream, k, FALSE)

\* The answer of a handler whose backend call gave outcome: 500 (None from
\* generate) when the call or ModelCache.set raised, else the body built
\* from the result; generate with stream=True returns the backend's response.
FinishAnswer(q, outcome) ==
    IF outcome = "raise" \/ (UsesCache(q.stream) /\ SetRaises(cache, max_size))
    THEN Answer(IF q.via = "direct" THEN 0 ELSE 500, None)
    ELSE IF UsesCache(q.stream)
    THEN Answer(IF q.via = "direct" THEN 0 ELSE 200, Body(q.via, outcome))
    ELSE Answer(0, [obj |-> IF llm = "remote" /\ outcome # "errmeta"
                            THEN "generator" ELSE "LLMResponse",
                    text |-> ""])

\* The backend call returns or raises and the handler finishes: the body of a
\* non-streaming request is stored with ModelCache.set, then returned.
Finish(r, outcome) ==
    /\ req[r].pc = "calling"
    /\ outcome \in BackendResults(llm)
    /\ IF outcome # "raise" /\ UsesCache(req[r].stream)
       THEN /\ CacheSet(req[r].key, Body(req[r].via, outcome))
            /\ UNCHANGED <<now, last, touched>>
       ELSE UNCHANGED cacheVars
    /\ req' = [req EXCEPT ![r] = DoneRequest]
    /\ UNCHANGED <<llm, api_keys, partVars>>

\* _streaming_completion / _streaming_chat: the backend call gives nothing to
\* iterate (LLamaLLM returns an LLMResponse or raises, the adapter returns an
\* LLMResponse when it has no connection): the except branch yields the
\* error frame.
StreamError(r) ==
    /\ LoopFree
    /\ req[r].pc = "open"
    /\ req[r].frames = <<>>
    /\ req' = [req EXCEPT ![r].pc = "last",
                          ![r].frames = Append(@, ErrorFrame)]
    /\ UNCHANGED <<cacheVars, llm, api_keys, partVars>>

\* The generator pulls a chunk from the adapter's stream and yields its frame;
\* it leaves the loop on a finish_reason, and the adapter's stream ends after
\* its error chunk.
StreamChunk(r, chunk) ==
    /\ LoopFree
    /\ llm = "remote"
    /\ req[r].pc = "open"
    /\ Len(req[r].frames) < MaxChunks
    /\ req' = [req EXCEPT ![r].frames = Append(@, DataFrame(chunk)),
                          ![r].pc = IF chunk.finish_reason # "" \/ chunk.error
                                    THEN "last" ELSE "open"]
    /\ UNCHANGED <<cacheVars, llm, api_keys, partVars>>

\* The frames of a stream once `data: [DONE]` is yielded.
Stream(q) == Append(q.frames, DoneFrame)

\* The adapter's stream ends, or the generator is resumed after its last
\* frame: it yields `data: [DONE]` and returns.
StreamDone(r) ==
    /\ LoopFree
    /\ \/ req[r].pc = "last"
       \/ req[r].pc = "open" /\ llm = "remote"
    /\ req' = [req EXCEPT ![r] = DoneRequest]
    /\ UNCHANGED <<cacheVars, llm, api_keys, partVars>>

\* The state LlamaServer.__init__ and _load_model leave, given the api_keys
\* argument: no request yet, an empty cache, one of the backends or none.
Constructor(keys) ==
    /\ CacheInit
    /\ max_size <= MaxCacheSize
    /\ llm \in {"none", "native", "remote"}
    /\ api_keys \in keys
    /\ req = [r \in 1..NumReq |-> IdleRequest]
    /\ Alone("gateway")

\* LlamaServer constructed without API keys
Init == Constructor({"none"})

\* LlamaServer constructed with a non-empty collection of API keys
InitAuth == Constructor({"list", "mapping"})

Next ==
    \/ \E r \in 1..NumReq : create_completion(r)
    \/ \E r \in 1..NumReq : create_chat_completion(r)
    \/ \E r \in 1..NumReq : generate(r)
    \/ \E r \in 1..NumReq, outcome \in {"ok", "empty", "errmeta", "raise"} : Finish(r, outcome)
    \/ \E r \in 1..NumReq : StreamError(r)
    \/ \E r \in 1..NumReq, chunk \in Chunks : StreamChunk(r, chunk)
    \/ \E r \in 1..NumReq : StreamDone(r)
    \/ Tick

Spec == Init /\ [][Next]_vars

SpecAuth == InitAuth /\ [][Next]_vars

\* ------------------------------------------------------------------ C3
\* C3 (single-flight): among the non-streaming requests, at most one backend
\* call for a cache key is in progress at any time.
C3_SingleFlight ==
    \A r1, r2 \in 1..NumReq :
        (/\ r1 # r2
         /\ req[r1].pc = "calling" /\ ~req[r1].stream
         /\ req[r2].pc = "calling" /\ ~req[r2].stream)
        => req[r1].key # req[r2].key

\* ------------------------------------------------------------------ C4
\* C4 (authentication): with a non-empty collection of API keys configured,
\* a request to POST /v1/completions or POST /v1/chat/completions that
\* carries no listed key is answered 401 and reaches neither the cache nor
\* the backend.
C4_Authentication ==
    [][\A r \in 1..NumReq, via \in {"completion", "chat"},
          stream \in BOOLEAN, k \in Keys :
          Begin(r, via, stream, k, FALSE) =>
              /\ BeginAnswer(via, stream, k).status = 401
              /\ req'[r].pc = "done"
              /\ UNCHANGED <<cache, hits, misses>>]_vars

\* ------------------------------------------------------------------ C5
\* C5 (streaming termination): a stream that _streaming_completion or
\* _streaming_chat has emitted contains exactly one data chunk with a
\* non-empty finish_reason, and no data chunk after it.
C5_StreamingTermination ==
    [][\A r \in 1..NumReq :
          StreamDone(r) =>
              LET s == Stream(req[r])
                  Finishes(i) == s[i].kind = "data" /\ s[i].finish_reason # ""
              IN  \E i \in 1..Len(s) :
                      /\ Finishes(i)
                      /\ \A j \in 1..Len(s) : Finishes(j) => j = i
                      /\ \A j \in (i + 1)..Len(s) : s[j].kind # "data"]_vars

C7_HitsSkipBackend ==
    \A r \in 1..NumReq :
        (req[r].pc = "calling" /\ ~req[r].stream) => req[r].lookup # "hit"

\* ------------------------------------------------------------------ C8
\* C8 (failures are not cached): a non-streaming request whose backend call
\* raises, or reports a failure in its result, leaves the cache entries as
\* they were.
C8_FailuresNotCached ==
    [][\A r \in 1..NumReq, outcome \in BackendResults(llm) :
          (Failure(outcome) /\ ~req[r].stream /\ Finish(r, outcome))
              => cache' = cache]_vars

\* ------------------------------------------------------------------ C9
\* C9 (streaming bypasses the cache): no step of a request with stream=true,
\* from its arrival to its last frame, reads or writes the response cache:
\* the entries and the hits and misses counters are the same after the step
\* as before it, whatever the backend's stream produces.
C9_StreamingBypassesCache ==
    [][(\E r \in 1..NumReq :
            /\ req'[r] # req[r]
            /\ req[r].stream \/ req'[r].stream)
        => UNCHANGED <<cache, hits, misses>>]_vars

\* A streaming response has yielded a frame while the cache holds an entry
\* stored after a lookup missed.
C9_Witness ==
    \E r \in 1..NumReq :
        /\ req[r].stream
        /\ req[r].pc = "last"
        /\ Len(cache) > 0
        /\ misses > 0

\* A step of ModelCache.get, of ModelCache.set.
GetStep == \E k \in Keys : Get(k)
SetStep == \E k \in Keys, v \in CacheValues : Set(k, v)

\* ------------------------------------------------------------------ C1
\* C1 (cache freshness): a ModelCache.get made at time now that returns a
\* value returns an entry whose insertion timestamp t has now - t <= ttl, and
\* a get that finds its key expired (a miss on a present key) leaves the key
\* out of the map.
C1_CacheFreshness ==
    [][GetStep =>
        LET k == last'.key
        IN  /\ last'.hit =>
                /\ HasKey(cache, k)
                /\ now - cache[IndexOf(cache, k)].timestamp <= ttl
            /\ (~last'.hit /\ HasKey(cache, k)) => ~HasKey(cache', k)]_vars

\* A get has returned a value after an earlier get missed.
C1_Witness == last.op = "get" /\ last.hit /\ misses > 0

\* ------------------------------------------------------------------ C2
\* C2 (cache bound): after any sequence of set/get/clear calls, for every
\* configured max_size >= 0, the map holds at most max_size entries.
C2_CacheBound == Len(cache) <= max_size

\* A set has evicted an entry of a cache that was full at the largest capacity.
C2_Witness ==
    /\ last.op = "set"
    /\ last.evicted # NoKey
    /\ max_size = MaxCapacity
    /\ Len(cache) = max_size

DefaultMaxTokens == 256

\* The request models' default for top_k.
DefaultTopK == 40

\* A stop list has at most MaxStop entries.
MaxStop == 2

Prompts == {"p", "q"}

StopWords == {"a", "b"}

\* The stop lists a client can send.
StopLists == UNION {[1..n -> StopWords] : n \in 0..MaxStop}

\* The generation parameters in play; max_tokens and top_k stand for the
\* numeric ones.
ParamNames == {"max_tokens", "stop", "top_k"}

\* A JSON number and a JSON list of strings, as parameter values.
Number(n) == [json |-> "number", num |-> n, items |-> <<>>]

List(items) == [json |-> "list", num |-> 0, items |-> items]

\* The values a client can give a parameter.
ParamValues(name) ==
    CASE name = "max_tokens" -> {Number(DefaultMaxTokens), Number(16)}
      [] name = "top_k" -> {Number(DefaultTopK), Number(5)}
      [] name = "stop" -> {List(s) : s \in StopLists}

\* The value a parameter has when the client leaves it unset.
Default(name) ==
    CASE name = "max_tokens" -> Number(DefaultMaxTokens)
      [] name = "top_k" -> Number(DefaultTopK)
      [] name = "stop" -> List(<<>>)

\* json.dumps(messages) of create_chat_completion for the one-message list
\* [{"role": "user", "content": content}].
dumps_messages(content) ==
    "[{\"role\": \"user\", \"content\": \"" \o content \o "\"}]"

\* What a client sends: the entry point, the prompt (for a chat request the
\* content of its one user message; a prompt is any string, the text of a
\* message list included), and the parameters it chose to set.
Sendable ==
    UNION {{request \in [via : {"completion", "direct", "chat"},
                         prompt : Prompts \cup {dumps_messages("p")},
                         given : {g \in [names -> UNION {ParamValues(n) : n \in names}] :
                                     \A n \in names : g[n] \in ParamValues(n)}] :
               request.via = "chat" => request.prompt \in Prompts} :
           names \in SUBSET ParamNames}

\* The keyword arguments create_completion passes to get_key: every field of
\* the request model, unset ones at their default.
CompletionParams(given) ==
    [n \in ParamNames |-> IF n \in DOMAIN given THEN given[n] ELSE Default(n)]

\* The keyword arguments LlamaServer.generate passes to get_key: its named
\* arguments (unset ones at their default) and **kwargs as the caller gave them.
DirectParams(given) ==
    [n \in {"max_tokens"} \cup DOMAIN given |->
        IF n \in DOMAIN given THEN given[n] ELSE Default(n)]

KeyParams(request) ==
    IF request.via \in {"completion", "chat"} THEN CompletionParams(request.given)
    ELSE DirectParams(request.given)

\* The parameter names in the order sort_keys puts them.
SortedNames == <<"max_tokens", "stop", "top_k">>

\* json.dumps(params, sort_keys=True): the items in the order of their names,
\* every value written as it stands (a list in the order of its elements).
dumps(params) ==
    LET Present(n) == n \in DOMAIN params
        names == SelectSeq(SortedNames, Present)
    IN  [i \in 1..Len(names) |-> <<names[i], params[names[i]]>>]

\* ModelCache.get_key: the prompt, then the dumped parameters.
get_key(prompt, params) == <<prompt, dumps(params)>>

KeyOf(request) ==
    get_key(IF request.via = "chat" THEN dumps_messages(request.prompt)
            ELSE request.prompt,
            KeyParams(request))

\* A non-streaming request is served: a hit if a response is stored under its
\* key, otherwise the backend's response is stored under it.
Serve(request) ==
    /\ Len(lookups.sent) < 2
    /\ lookups' = [sent |-> Append(lookups.sent, request),
                   stored |-> lookups.stored \cup {KeyOf(request)},
                   served |-> Append(lookups.served,
                                     IF KeyOf(request) \in lookups.stored
                                     THEN "hit" ELSE "miss")]
    /\ Untouched("lookups")

\* The rest of the gateway at rest.
NoCache ==
    /\ cache = <<>>
    /\ max_size = 0
    /\ ttl = 0
    /\ hits = 0
    /\ misses = 0
    /\ now = 0
    /\ last = NoCall
    /\ touched = [k \in Keys |-> -1]

\* Everything but the component `part` at rest: no backend, no request.
Rest(part) ==
    /\ NoCache
    /\ llm = "none"
    /\ api_keys = "none"
    /\ req = [r \in 1..NumReq |-> IdleRequest]
    /\ Alone(part)

InitKey ==
    /\ Rest("lookups")
    /\ lookups = NoLookups

NextKey == \E request \in Sendable : Serve(request)

SpecKey == InitKey /\ [][NextKey]_vars

\* b is a with its elements in another order.
IsReordering(a, b) ==
    /\ Len(a) = Len(b)
    /\ \E f \in Permutations(1..Len(a)) : b = [i \in 1..Len(a) |-> a[f[i]]]

\* Two requests that differ only in the order of their stop lists.
DifferInStopOrder(a, b) ==
    /\ a.via = b.via
    /\ a.prompt = b.prompt
    /\ DOMAIN a.given = DOMAIN b.given
    /\ "stop" \in DOMAIN a.given
    /\ \A n \in DOMAIN a.given \ {"stop"} : a.given[n] = b.given[n]
    /\ a.given["stop"] # b.given["stop"]
    /\ IsReordering(a.given["stop"].items, b.given["stop"].items)

\* Two requests that differ only in that a leaves a parameter unset that b
\* gives its default value.
DifferInDefault(a, b) ==
    /\ a.via = b.via
    /\ a.prompt = b.prompt
    /\ \E n \in ParamNames \ DOMAIN a.given :
        /\ DOMAIN b.given = DOMAIN a.given \cup {n}
        /\ b.given[n] = Default(n)
        /\ \A m \in DOMAIN a.given : a.given[m] = b.given[m]

\* C11: two requests that differ only in the order of their stop sequences, or
\* only in that one leaves an optional parameter unset and the other gives it
\* its default, get the same cache key, and the second is served from the
\* entry the first stored.
C11_FingerprintStability ==
    Len(lookups.sent) = 2 =>
        LET a == lookups.sent[1]
            b == lookups.sent[2]
        IN  (DifferInStopOrder(a, b) \/ DifferInDefault(a, b) \/ DifferInDefault(b, a))
                => KeyOf(a) = KeyOf(b) /\ lookups.served[2] = "hit"

\* C12: with max_size = 0 the cache always misses (get returns no value, set
\* stores nothing and does not fail) and non-streaming requests are still
\* answered normally, identical concurrent ones sharing one backend call.
C12_CapacityZero ==
    [][max_size = 0 =>
        /\ \A r \in 1..NumReq : req'[r].lookup # "hit"
        /\ \A r \in 1..NumReq, outcome \in {"ok", "empty", "errmeta"} :
              (~req[r].stream /\ Finish(r, outcome)) =>
                  /\ ~SetRaises(cache, max_size)
                  /\ cache' = <<>>
                  /\ FinishAnswer(req[r], outcome) =
                        Answer(IF req[r].via = "direct" THEN 0 ELSE 200,
                               Body(req[r].via, outcome))
        /\ \A r1, r2 \in 1..NumReq :
              (/\ r1 # r2
               /\ req'[r1].pc = "calling" /\ ~req'[r1].stream
               /\ req'[r2].pc = "calling" /\ ~req'[r2].stream)
                  => req'[r1].key # req'[r2].key]_vars

\* ------------------------------------------- ExternalLLMProxy._make_request

\* max_tries of the backoff decorator of _make_request.
max_tries == 3

\* The upstream's behaviour is fixed for the first MaxPlan attempts.
MaxPlan == 3

\* What session.post / session.get does at one attempt: answers 200, answers
\* another status, raises requests' ConnectionError, raises requests'
\* Timeout, raises anything else.
Upstream == {"ok", "status", "connection", "timeout", "other"}

\* What the body of _make_request does with it: returns the JSON, returns
\* the error dict, or raises.
Returned(up) ==
    CASE up = "ok" -> "json"
      [] up = "status" -> "error_status"
      [] OTHER -> "none"

\* The class of the exception that leaves the body: the two requests
\* exceptions are caught and the builtin ConnectionError / TimeoutError are
\* raised in their place, anything else is re-raised as it is.
Raised(up) ==
    CASE up = "connection" -> "builtins.ConnectionError"
      [] up = "timeout" -> "builtins.TimeoutError"
      [] up = "other" -> "Exception"
      [] OTHER -> "none"

\* Retried with every exception class in it.
RetriedAll == {"requests.ConnectionError", "requests.Timeout",
               "builtins.ConnectionError", "builtins.TimeoutError", "Exception"}

\* The exception classes given to backoff.on_exception.
Retried == {"requests.ConnectionError", "requests.Timeout"}

\* backoff.on_exception: call again if the exception is one of the given
\* classes and fewer than max_tries calls were made, else let it out.
Retries(exc, tries) == exc \in Retried /\ tries < max_tries

\* The error kept in the result's metadata: the error dict's message.
ErrorOf(result) ==
    IF result = "json" THEN "none"
    ELSE IF result = "error_status" THEN "api_error"
    ELSE result

\* generate_completion turns an exception into {"error": str(e)};
\* ExternalLLMAdapter.generate turns a dict with "error" into an LLMResponse
\* with the error in its metadata and no finish_reason, any other dict into
\* one with the text and the upstream's finish_reason.
ResponseOf(result) ==
    IF result = "json"
    THEN [text |-> "x", error |-> "none", finish_reason |-> "stop"]
    ELSE [text |-> "error", error |-> ErrorOf(result), finish_reason |-> "none"]

\* ExternalLLMAdapter.generate (connected, stream=False) up to the proxy's
\* request.
ExternalGenerate ==
    /\ remote.pc = "idle"
    /\ remote' = [remote EXCEPT !.pc = "requesting"]
    /\ Untouched("remote")

\* One call of the body of _make_request under the decorator: the attempt,
\* then the decorator's choice between calling again and letting the
\* exception out.
make_request ==
    /\ remote.pc = "requesting"
    /\ remote.tries < MaxPlan
    /\ LET n == remote.tries + 1
           up == remote.plan[n]
       IN  remote' =
             IF Returned(up) # "none"
             THEN [remote EXCEPT !.tries = n, !.pc = "returned", !.result = Returned(up)]
             ELSE IF Retries(Raised(up), n)
             THEN [remote EXCEPT !.tries = n]
             ELSE [remote EXCEPT !.tries = n, !.pc = "raised", !.result = Raised(up)]
    /\ Untouched("remote")

\* generate_completion and ExternalLLMAdapter.generate return.
ExternalReturn ==
    /\ remote.pc \in {"returned", "raised"}
    /\ remote' = [remote EXCEPT !.pc = "done", !.response = ResponseOf(remote.result)]
    /\ Untouched("remote")

InitRemote ==
    /\ Rest("remote")
    /\ remote \in {[NoRemote EXCEPT !.plan = plan] : plan \in [1..MaxPlan -> Upstream]}

NextRemote ==
    \/ ExternalGenerate
    \/ make_request
    \/ ExternalReturn

SpecRemote == InitRemote /\ [][NextRemote]_vars

\* C13: when the upstream fails the first two attempts with a connection
\* error or a timeout and then succeeds, ExternalLLMAdapter.generate returns
\* the successful result, without an error in its metadata, after exactly
\* three attempts.
C13_RemoteRetry ==
    (/\ remote.pc = "done"
     /\ remote.plan[1] \in {"connection", "timeout"}
     /\ remote.plan[2] \in {"connection", "timeout"}
     /\ remote.plan[3] = "ok")
        => /\ remote.response.error = "none"
           /\ remote.response.text = "x"
           /\ remote.tries = 3

\* C14: _make_request makes a further attempt only after a connection or
\* timeout error; an HTTP error status ends the call at once with the error
\* result; and it never makes more than three attempts.
C14_RetryPolicy ==
    [][remote'.tries # remote.tries =>
        /\ remote'.tries <= 3
        /\ remote.tries > 0 => remote.plan[remote.tries] \in {"connection", "timeout"}
        /\ remote.plan[remote'.tries] = "status" =>
              /\ remote'.pc = "returned"
              /\ remote'.result = "error_status"]_vars

\* An HTTP error status came back as the error result of a single attempt.
C14_Witness ==
    /\ remote.pc = "done"
    /\ remote.plan[1] = "status"
    /\ remote.tries = 1
    /\ remote.response.error = "api_error"

\* --------------------------------------- ExternalLLMProxy._stream_completion

\* The upstream sends at most MaxLines lines.
MaxLines == 3

\* A line of the upstream's body, split where the parser splits it: the
\* first six characters if they are `data: `, and the rest.
Line(prefix, payload) == [prefix |-> prefix, payload |-> payload]

\* A JSON chunk, the end marker, a data line that is not JSON, an SSE
\* comment, and an empty line.
Lines ==
    {Line("data: ", "{json}"), Line("data: ", "[DONE]"), Line("data: ", "garbage"),
     Line("", ": keep-alive"), Line("", "")}

\* if line:
NonEmpty(line) == line.prefix # "" \/ line.payload # ""

\* line == "data: [DONE]"
IsDone(line) == line.prefix = "data: " /\ line.payload = "[DONE]"

\* line.startswith('data: ')
StartsWithData(line) == line.prefix = "data: "

\* json.loads(line[6:]) succeeds
Loads(payload) == payload = "{json}"

\* What one turn of the loop over response.iter_lines() yields for the
\* line numbered i: nothing for an empty line, for the end marker (continue)
\* and for a line without the prefix; the parsed chunk or the decode-error
\* chunk for a data line.
YieldsFor(line, i) ==
    IF ~NonEmpty(line) \/ IsDone(line) \/ ~StartsWithData(line) THEN <<>>
    ELSE IF Loads(line.payload) THEN <<[chunk |-> "data", line |-> i]>>
    ELSE <<[chunk |-> "error", line |-> i]>>

\* session.post(..., stream=True) answers: any status but 200 yields one
\* error chunk and ends the generator.
StreamOpen ==
    /\ sse.pc = "idle"
    /\ sse' = IF sse.status = 200 THEN [sse EXCEPT !.pc = "reading"]
              ELSE [sse EXCEPT !.pc = "ended",
                               !.yielded = <<[chunk |-> "error", line |-> 0]>>]
    /\ Untouched("sse")

\* One turn of the loop: the next line is read and its chunk, if any, yielded.
StreamLine ==
    /\ sse.pc = "reading"
    /\ sse.pos < Len(sse.lines)
    /\ sse' = [sse EXCEPT !.pos = @ + 1,
                          !.yielded = @ \o YieldsFor(sse.lines[sse.pos + 1], sse.pos + 1)]
    /\ Untouched("sse")

\* iter_lines() is exhausted: the generator ends.
StreamEnd ==
    /\ sse.pc = "reading"
    /\ sse.pos = Len(sse.lines)
    /\ sse' = [sse EXCEPT !.pc = "ended"]
    /\ Untouched("sse")

InitStream ==
    /\ Rest("sse")
    /\ sse \in {[NoStream EXCEPT !.status = status, !.lines = lines] :
                    status \in {200, 500},
                    lines \in UNION {[1..n -> Lines] : n \in 0..MaxLines}}

NextStream ==
    \/ StreamOpen
    \/ StreamLine
    \/ StreamEnd

SpecStream == InitStream /\ [][NextStream]_vars

\* The line numbered i comes after a `data: [DONE]` line.
AfterDone(lines, i) == \E j \in 1..(i - 1) : IsDone(lines[j])

\* C15: the parser yields one chunk for each line read that starts with
\* `data: `, none for any other line, and stops at `data: [DONE]`: no chunk
\* is yielded for a line after it.
C15_StreamParsing ==
    sse.status = 200 =>
        /\ \A i \in 1..sse.pos :
              (/\ StartsWithData(sse.lines[i])
               /\ ~IsDone(sse.lines[i])
               /\ ~AfterDone(sse.lines, i))
                  => Cardinality({n \in 1..Len(sse.yielded) : sse.yielded[n].line = i}) = 1
        /\ \A n \in 1..Len(sse.yielded) :
              /\ StartsWithData(sse.lines[sse.yielded[n].line])
              /\ ~AfterDone(sse.lines, sse.yielded[n].line)

\* ------------------------------------------------- reported finish reason

\* metadata.get("finish_reason") of a non-streaming backend result ("none":
\* the key is absent): the adapter copies the upstream's finish_reason into
\* a successful result only; LLamaLLM sets none.
MetadataFinishReason(b, outcome) ==
    IF b = "remote" /\ ~Failure(outcome) THEN "stop" ELSE "none"

\* choices[0].finish_reason of the response dict:
\* llm_response.metadata.get("finish_reason", "length") in create_completion,
\* with "stop" as the default in create_chat_completion.
ReportedFinishReason(via, outcome) ==
    IF MetadataFinishReason(llm, outcome) # "none"
    THEN MetadataFinishReason(llm, outcome)
    ELSE IF via = "completion" THEN "length" ELSE "stop"

\* C16: a failed remote call is, in streaming mode, an error chunk that is the
\* last chunk of the stream, and in non-streaming mode a result whose finish
\* reason is `error`, with the error kept in the metadata; the gateway
\* reports that finish reason.
C16_RemoteFailure ==
    [][llm = "remote" =>
        /\ \A r \in 1..NumReq :
              StreamChunk(r, ErrChunk) => req'[r].pc = "last"
        /\ \A r \in 1..NumReq :
              (/\ req[r].via \in {"completion", "chat"}
               /\ ~req[r].stream
               /\ Finish(r, "errmeta"))
                  => /\ MetadataFinishReason(llm, "errmeta") = "error"
                     /\ ReportedFinishReason(req[r].via, "errmeta") = "error"]_vars

\* ------------------------------------------------------------------ LLamaLLM

\* Number of threads calling into one LLamaLLM.
NumThreads == 2

\* Number of Llama handles one LLamaLLM creates.
MaxHandles == 2

Threads == 1..NumThreads

\* The methods that call into the llama.cpp handle: model(...), model.embed,
\* model.tokenize.
RuntimeOps == {"generate", "chat", "get_embeddings", "tokenize"}

\* The methods whose body is under `with self.lock:`.
LockedOps == {"load_model", "unload_model", "set_active_model", "shutdown"}

\* generate / chat / get_embeddings / tokenize: RuntimeError without an active
\* model, otherwise the thread takes the handle from self.models and calls
\* into it. self.lock is not touched.
NativeCall(t, op) ==
    /\ native.pc[t] = "idle"
    /\ native' = IF native.active_model # 0 THEN [native EXCEPT !.pc[t] = op] ELSE native
    /\ Untouched("native")

\* The call into the handle returns.
NativeReturn(t) ==
    /\ native.pc[t] \in RuntimeOps
    /\ native' = [native EXCEPT !.pc[t] = "idle"]
    /\ Untouched("native")

\* load_model / unload_model / set_active_model / shutdown enter
\* `with self.lock:`.
NativeAcquire(t, op) ==
    /\ native.pc[t] = "idle"
    /\ native.lock = 0
    /\ op = "load_model" => native.made < MaxHandles
    /\ native' = [native EXCEPT !.pc[t] = op, !.lock = t]
    /\ Untouched("native")

\* What the body of a locked method leaves, for the one model name "m":
\* load_model stores a new handle in self.models["m"] and touches nothing
\* else; set_active_model takes the handle and the name of a model that is
\* in self.models; unload_model deletes a model that is there, and with it
\* the active model if it has that name; shutdown unloads every model and
\* clears the active model.
AfterLocked(n, op) ==
    CASE op = "load_model" -> [n EXCEPT !.made = @ + 1, !.handle = n.made + 1]
      [] op = "set_active_model" ->
            IF n.handle = 0 THEN n
            ELSE [n EXCEPT !.active_model = n.handle, !.active_model_name = "m"]
      [] op = "unload_model" ->
            IF n.handle = 0 THEN n
            ELSE IF n.active_model_name = "m"
            THEN [n EXCEPT !.handle = 0, !.active_model = 0, !.active_model_name = ""]
            ELSE [n EXCEPT !.handle = 0]
      [] OTHER -> [n EXCEPT !.handle = 0, !.active_model = 0, !.active_model_name = ""]

\* The body of a locked method runs to its end and the lock is released.
NativeRelease(t) ==
    /\ native.pc[t] \in LockedOps
    /\ native' = [AfterLocked(native, native.pc[t]) EXCEPT !.pc[t] = "idle", !.lock = 0]
    /\ Untouched("native")

\* LLamaLLM.__init__ and _load_models_from_config: the model of the
\* configuration loaded or not, and active if it is the default model.
InitNative ==
    /\ Rest("native")
    /\ native \in {[NoNative EXCEPT !.made = loaded, !.handle = loaded,
                                    !.active_model = active,
                                    !.active_model_name = IF active = 0 THEN "" ELSE "m",
                                    !.pc = [t \in Threads |-> "idle"]] :
                      loaded \in {0, 1}, active \in {0, 1}}
    /\ native.active_model # 0 => native.handle # 0

NextNative ==
    \/ \E t \in Threads, op \in RuntimeOps : NativeCall(t, op)
    \/ \E t \in Threads : NativeReturn(t)
    \/ \E t \in Threads, op \in LockedOps : NativeAcquire(t, op)
    \/ \E t \in Threads : NativeRelease(t)

SpecNative == InitNative /\ [][NextNative]_vars

\* C17: at most one thread is inside the llama.cpp handle at a time, each
\* such call being made under the adapter's lock, and unload_model / shutdown
\* never run while a generate is in progress.
C17_NativeMutualExclusion ==
    /\ Cardinality({t \in Threads : native.pc[t] \in RuntimeOps}) <= 1
    /\ \A t \in Threads : native.pc[t] \in RuntimeOps => native.lock = t
    /\ \A t, u \in Threads :
          ~(native.pc[t] \in {"unload_model", "shutdown"} /\ native.pc[u] \in {"generate", "chat"})

\* ------------------------------------------- LlamaServer: start, stop, /ws

\* Number of WebSocket connections.
NumConn == 2

\* A connection receives at most MaxRecv frames.
MaxRecv == 2

\* At most MaxInCall requests are inside a backend call.
MaxInCall == 1

\* A WebSocket connection not yet made.
NoConn == [state |-> "none", received |-> 0, jobs |-> 0, pending |-> {}, sent |-> <<>>, removed |-> 0]

\* A LlamaServer that had a _setup_api method.
AttributesWithSetup ==
    {"_load_model", "_server_loop", "_configure_routes", "_configure_middleware",
     "_setup_api"}

\* The attributes a LlamaServer has that start and the WebSocket endpoint
\* look up: _load_model is a method; _setup_api is defined nowhere, and
\* _handle_ws_completion and _handle_ws_chat are functions local to
\* _configure_routes.
Attributes == {"_load_model", "_server_loop", "_configure_routes", "_configure_middleware"}

\* getattr(self, name): the attribute, or AttributeError.
HasAttribute(name) == name \in Attributes

\* LlamaServer.start: nothing when running; _load_model, which sets
\* _llm_instance when it succeeds; the FastAPI test; self._setup_api(); then
\* running = True and the server thread.
start ==
    /\ server' =
         IF server.running THEN [server EXCEPT !.last = "False"]
         ELSE IF ~server.loadable THEN [server EXCEPT !.last = "False"]
         ELSE IF ~server.fastapi THEN [server EXCEPT !.loaded = TRUE, !.last = "False"]
         ELSE IF ~HasAttribute("_setup_api")
         THEN [server EXCEPT !.loaded = TRUE, !.last = "AttributeError"]
         ELSE [server EXCEPT !.loaded = TRUE, !.running = TRUE, !.thread = TRUE,
                             !.last = "True"]
    /\ Untouched("server")

\* LlamaServer.stop: nothing when not running; otherwise running = False, the
\* connections are removed from _active_connections, the server thread is
\* joined for five seconds (it is not told to end), and the backend is shut
\* down and dropped.
stop ==
    /\ server' =
         IF ~server.running THEN [server EXCEPT !.last = "not_running"]
         ELSE [server EXCEPT !.running = FALSE, !.connections = {},
                             !.conns = [c \in DOMAIN @ |->
                                           IF c \in server.connections
                                           THEN [@[c] EXCEPT !.removed = @ + 1]
                                           ELSE @[c]],
                             !.loaded = FALSE, !.last = "stopped"]
    /\ Untouched("server")

\* A request handler of the app enters its backend call.
BackendCall ==
    /\ server.loaded
    /\ server.incall < MaxInCall
    /\ server' = [server EXCEPT !.incall = @ + 1]
    /\ Untouched("server")

\* The backend call returns.
BackendReturn ==
    /\ server.incall > 0
    /\ server' = [server EXCEPT !.incall = @ - 1]
    /\ Untouched("server")

\* websocket_endpoint: accept, and the connection joins _active_connections.
WsAccept(c) ==
    /\ server.conns[c].state = "none"
    /\ server' = [server EXCEPT !.conns[c].state = "open",
                                !.connections = @ \cup {c}]
    /\ Untouched("server")

\* finally: self._active_connections.remove(websocket) as the endpoint ends
\* in state `end`: set.remove raises KeyError when the connection is not in
\* the set, and the endpoint ends with that error.
Removed(conn, c, end) ==
    IF c \in server.connections
    THEN [conn EXCEPT !.state = end, !.removed = @ + 1]
    ELSE [conn EXCEPT !.state = "KeyError"]

\* The frames of the WebSocket protocol; job: the number of the job on its
\* connection (0: the answer to a frame of unknown type).
Frame(type, job) == [type |-> type, job |-> job]

\* One turn of the endpoint's loop. A frame of unknown type is answered with
\* an error frame. For a completion or chat frame the endpoint looks up its
\* handler on self to make a task of it: the AttributeError ends the loop,
\* the finally clause removes the connection and the endpoint returns.
WsReceive(c, type) ==
    LET conn == server.conns[c]
        handler == IF type = "completion" THEN "_handle_ws_completion"
                   ELSE "_handle_ws_chat"
    IN  /\ conn.state = "open"
        /\ conn.received < MaxRecv
        /\ server' =
             IF type \notin {"completion", "chat"}
             THEN [server EXCEPT !.conns[c].received = @ + 1,
                                 !.conns[c].sent = Append(@, Frame("error", 0))]
             ELSE IF HasAttribute(handler)
             THEN [server EXCEPT !.conns[c].received = @ + 1,
                                 !.conns[c].jobs = @ + 1,
                                 !.conns[c].pending = @ \cup {conn.jobs + 1}]
             ELSE [server EXCEPT !.conns[c] = Removed([@ EXCEPT !.received = @ + 1,
                                                                !.jobs = @ + 1],
                                                      c, "closed"),
                                 !.connections = @ \ {c}]
        /\ Untouched("server")

\* The client goes away: WebSocketDisconnect, and the finally clause removes
\* the connection.
WsDisconnect(c) ==
    /\ server.conns[c].state = "open"
    /\ server' = [server EXCEPT !.conns[c] = Removed(@, c, "disconnected"),
                                !.connections = @ \ {c}]
    /\ Untouched("server")

\* The names self.config is followed under: a model parameter, the two names
\* the config endpoints leave out, and another name a credential is kept under.
ConfigKeys == {"n_ctx", "api_key", "secret", "openai_api_key"}

\* A dict over ConfigKeys with no key set ("" stands for a key not in it).
NoConfig == [k \in ConfigKeys |-> ""]

\* self.config as LlamaServer.__init__ builds it without cache_config and
\* api_keys.
DefaultConfig == [NoConfig EXCEPT !["n_ctx"] = "a"]

\* LlamaServer.__init__: not running, no thread, no backend, no connection;
\* whether _load_model can succeed and whether FastAPI is installed are
\* given by the environment.
InitServer ==
    /\ Rest("server")
    /\ server \in {[NoServer EXCEPT !.loadable = loadable, !.fastapi = fastapi,
                                    !.conns = [c \in 1..NumConn |-> NoConn],
                                    !.config = DefaultConfig, !.view = NoConfig] :
                      loadable \in BOOLEAN, fastapi \in BOOLEAN}

NextServer ==
    \/ start
    \/ stop
    \/ BackendCall
    \/ BackendReturn
    \/ \E c \in 1..NumConn : WsAccept(c)
    \/ \E c \in 1..NumConn, type \in {"completion", "chat", "other"} : WsReceive(c, type)
    \/ \E c \in 1..NumConn : WsDisconnect(c)

SpecServer == InitServer /\ [][NextServer]_vars

\* C18: start sets running and starts the server thread, and only once the
\* model is loaded; when the load fails it returns False, running stays
\* false and no listener is started; a start of a running server changes
\* nothing.
C18_StartOrdering ==
    [][start =>
        /\ (~server.running /\ server.loadable /\ server.fastapi) =>
              /\ server'.loaded
              /\ server'.running
              /\ server'.thread
              /\ server'.last = "True"
        /\ (server'.running \/ server'.thread) => server'.loaded
        /\ (~server.running /\ ~server.loadable) =>
              /\ server'.last = "False"
              /\ ~server'.running
              /\ ~server'.thread
        /\ server.running => server' = [server EXCEPT !.last = "False"]]_vars

\* C19: stop does not shut the backend down while a request is inside a
\* backend call, and after it the connection set is empty and the backend
\* handle is released.
C19_StopOrdering ==
    [][stop =>
        /\ (server.loaded /\ ~server'.loaded) => server.incall = 0
        /\ server'.connections = {}
        /\ ~server'.loaded
        /\ ~server'.running]_vars

\* The frames sent on a connection for its job numbered j.
FramesOf(conn, j) == SelectSeq(conn.sent, LAMBDA f : f.job = j)

Terminating == {"completion_finished", "chat_finished", "error"}

\* C20: every completion or chat job whose handler is no longer at work has
\* had its chunk frames and then exactly one terminating frame
\* (`*_finished` or `error`), the last frame of the job; a frame of unknown
\* type is answered with an error frame only.
C20_WsJobFraming ==
    \A c \in 1..NumConn :
        LET conn == server.conns[c]
        IN  /\ \A j \in (1..conn.jobs) \ conn.pending :
                  LET frames == FramesOf(conn, j)
                  IN  /\ Len(frames) > 0
                      /\ frames[Len(frames)].type \in Terminating
                      /\ \A i \in 1..(Len(frames) - 1) : frames[i].type \notin Terminating
            /\ \A i \in 1..Len(conn.sent) :
                  conn.sent[i].job = 0 => conn.sent[i].type = "error"

\* ------------------------------------------- streaming and client disconnect

\* A streaming request asks for at most MaxNewTokens tokens.
MaxNewTokens == 10

\* The generator's first step: self._llm_instance.generate(..., stream=True).
\* LLamaLLM runs the whole generation inside this call; the adapter returns
\* its lazy stream at once.
StreamingCall ==
    /\ streaming.pc = "idle"
    /\ streaming' = [streaming EXCEPT !.pc = IF streaming.backend = "native"
                                             THEN "generating" ELSE "streaming"]
    /\ Untouched("streaming")

\* The client closes the connection. No handler, generator or backend reads
\* this: the framework stops resuming the generator.
ClientDisconnect ==
    /\ ~streaming.gone
    /\ streaming.pc # "ended"
    /\ streaming' = [streaming EXCEPT !.gone = TRUE]
    /\ Untouched("streaming")

\* LLamaLLM.generate: the call into the model produces the next token; it
\* takes no signal from outside and goes on up to max_tokens.
NativeToken ==
    /\ streaming.pc = "generating"
    /\ streaming.produced < streaming.max_tokens
    /\ streaming' = [streaming EXCEPT !.produced = @ + 1,
                                      !.after = IF streaming.gone THEN @ + 1 ELSE @]
    /\ Untouched("streaming")

\* The call into the model returns with its last token; the LLMResponse it
\* gives cannot be iterated and the generator ends with the error frame.
NativeDone ==
    /\ streaming.pc = "generating"
    /\ streaming.produced = streaming.max_tokens
    /\ streaming' = [streaming EXCEPT !.pc = "ended", !.finish_reason = "none"]
    /\ Untouched("streaming")

\* `for chunk in generator`: the generator, resumed for a client that is
\* there, pulls the next chunk of the adapter's stream; the last one carries
\* the upstream's finish_reason and ends the loop.
RemoteChunk ==
    /\ streaming.pc = "streaming"
    /\ ~streaming.gone
    /\ streaming.produced < streaming.max_tokens
    /\ streaming' =
         IF streaming.produced + 1 = streaming.max_tokens
         THEN [streaming EXCEPT !.produced = @ + 1, !.pc = "ended",
                                !.finish_reason = "length"]
         ELSE [streaming EXCEPT !.produced = @ + 1]
    /\ Untouched("streaming")

\* The generator of a client that is gone is not resumed: it is closed
\* where it stands and the adapter's stream is dropped with it.
StreamAbandoned ==
    /\ streaming.pc = "streaming"
    /\ streaming.gone
    /\ streaming' = [streaming EXCEPT !.pc = "ended"]
    /\ Untouched("streaming")

InitStreaming ==
    /\ Rest("streaming")
    /\ streaming \in [backend : {"native", "remote"}, max_tokens : 1..MaxNewTokens,
                      pc : {"idle"}, gone : {FALSE}, produced : {0}, after : {0},
                      finish_reason : {"none"}]

NextStreaming ==
    \/ StreamingCall
    \/ ClientDisconnect
    \/ NativeToken
    \/ NativeDone
    \/ RemoteChunk
    \/ StreamAbandoned

SpecStreaming == InitStreaming /\ [][NextStreaming]_vars

\* C21: once the client of a streaming request has disconnected, the backend
\* produces at most 8 further tokens and its stream ends with
\* finish_reason = cancelled.
C21_DisconnectCancels ==
    streaming.gone =>
        /\ streaming.after <= 8
        /\ streaming.pc = "ended" => streaming.finish_reason = "cancelled"

\* C30: ModelCache.set on a key already in the cache replaces only that
\* key's entry: every other entry stays as it was and the number of entries
\* is unchanged, also when the cache holds max_size entries.
C30_SetExistingKey ==
    [][\A k \in Keys, v \in CacheValues :
          (Set(k, v) /\ HasKey(cache, k)) =>
              /\ Len(cache') = Len(cache)
              /\ \A i \in 1..Len(cache) :
                    cache[i].key # k =>
                        /\ HasKey(cache', cache[i].key)
                        /\ cache'[IndexOf(cache', cache[i].key)] = cache[i]]_vars

\* ------------------------------------------------------- /v1/config endpoints

\* {k: v for k, v in self.config.items() if k not in ["api_key", "secret"]}
safe_config(config) ==
    [k \in ConfigKeys |-> IF k \in {"api_key", "secret"} THEN "" ELSE config[k]]

\* GET /v1/config
get_config ==
    /\ server' = [server EXCEPT !.view = safe_config(server.config),
                                !.last = "get_config"]
    /\ Untouched("server")

\* POST /v1/config: every posted key is stored, and the filtered config is
\* returned.
update_config(posted) ==
    LET config == [k \in ConfigKeys |->
                      IF posted[k] # "" THEN posted[k] ELSE server.config[k]]
    IN  /\ server' = [server EXCEPT !.config = config, !.view = safe_config(config),
                                    !.last = "update_config"]
        /\ Untouched("server")

\* LlamaServer(model_path, api_keys = a dict or None): the dict's items become
\* items of self.config.
InitConfig ==
    /\ Rest("server")
    /\ \E api_keys_dict \in [ConfigKeys \ {"n_ctx"} -> {"", "a", "b"}] :
          server = [NoServer EXCEPT
                       !.conns = [c \in 1..NumConn |-> NoConn],
                       !.view = NoConfig,
                       !.config = [k \in ConfigKeys |->
                                      IF k = "n_ctx" THEN "a" ELSE api_keys_dict[k]]]

NextConfig ==
    \/ get_config
    \/ \E posted \in [ConfigKeys -> {"", "a", "b"}] : update_config(posted)

SpecConfig == InitConfig /\ [][NextConfig]_vars

\* C25: the config returned by GET /v1/config and by POST /v1/config holds
\* no secret, under whatever name the secret is stored or posted (so two
\* servers whose configs differ in secret values only return the same view).
C25_ConfigRedaction ==
    server.last \in {"get_config", "update_config"} =>
        \A k \in ConfigKeys \ {"n_ctx"} : server.view[k] = ""

\* ---------------------------------------------------------------- usage

\* count_tokens of a backend on the texts followed here ("x", "", "err"):
\* LLamaLLM returns len(self.tokenize(text)), one token per character here;
\* the adapter returns len(text) // 4 + 1.
count_tokens(b, text) ==
    LET chars == CASE text = "" -> 0 [] text = "x" -> 1 [] OTHER -> 3
    IN  IF b = "native" THEN chars ELSE chars \div 4 + 1

\* metadata.get("tokens_used", 0) of a backend result. LLamaLLM's metadata
\* and every error result have no such key. The adapter stores the upstream's
\* usage.total_tokens (`reported`, -1 when the upstream sends none), with its
\* own prompt + completion count as the default in generate and 0 in chat.
TokensUsed(b, via, outcome, reported) ==
    IF b = "native" \/ Failure(outcome) THEN 0
    ELSE IF reported >= 0 THEN reported
    ELSE IF via = "chat" THEN 0
    ELSE count_tokens(b, "x") + count_tokens(b, Text(outcome))

\* The `usage` of the response dict of create_completion and
\* create_chat_completion, for the one-character prompt "x".
Usage(via, outcome, reported) ==
    [prompt_tokens     |-> count_tokens(llm, "x"),
     completion_tokens |-> count_tokens(llm, Text(outcome)),
     total_tokens      |-> TokensUsed(llm, via, outcome, reported)]

\* C24: in every non-streaming completion and chat completion response,
\* usage.total_tokens = usage.prompt_tokens + usage.completion_tokens, for
\* every backend.
C24_UsageTotals ==
    [][\A r \in 1..NumReq, outcome \in {"ok", "empty", "errmeta"}, reported \in -1..MaxCount :
          (/\ req[r].via \in {"completion", "chat"}
           /\ ~req[r].stream
           /\ Finish(r, outcome))
              => LET usage == Usage(req[r].via, outcome, reported)
                 IN  usage.total_tokens
                       = usage.prompt_tokens + usage.completion_tokens]_vars

\* C27: the cache keys of the two endpoints are disjoint: the key of a
\* /v1/completions request never equals the key of a /v1/chat/completions
\* request, so neither is answered with a body cached by the other.
C27_EndpointKeysDisjoint ==
    \A i, j \in 1..Len(lookups.sent) :
        (lookups.sent[i].via = "completion" /\ lookups.sent[j].via = "chat")
            => KeyOf(lookups.sent[i]) # KeyOf(lookups.sent[j])

\* GET /v1/status: the fields that depend on the server's state.
get_status ==
    [status      |-> IF server.loaded THEN "running" ELSE "not_ready",
     connections |-> Cardinality(server.connections)]

C29_ActiveModel ==
    /\ [](/\ native.active_model # 0
              <=> (native.active_model_name = "m" /\ native.handle # 0)
          /\ native.active_model # 0 => native.active_model = native.handle)
    /\ [][\A t \in Threads :
            (native.pc[t] = "shutdown" /\ NativeRelease(t))
                => /\ native'.handle = 0
                   /\ native'.active_model = 0
                   /\ native'.active_model_name = ""]_vars

\* -------------------------------------------------------- HardwareOptimizer

\* if abs(current_hw.total_ram - profile_hw.total_ram) > 1024 (MiB)
RamTolerance == 1024

\* if days_since_update > 30
MaxAgeDays == 30

\* HardwareOptimizer objects made over one profile path.
NumInstances == 2

\* What LlamaConfig.detect_hardware finds on this machine.
detect_hardware ==
    [total_ram |-> 8192, cpu_model |-> "a", gpu_model |-> "g",
     has_cuda |-> FALSE, has_rocm |-> FALSE]

\* The profile _update_hardware_profile leaves: the detected hardware and
\* updated_at = now (a timestamp that parses, 0 days old).
FreshProfile ==
    [hardware |-> detect_hardware, updated_at |-> [parses |-> TRUE, age |-> 0]]

\* The profiles a saved file can hold: the hardware of the machine it was
\* written on, and updated_at as a string that strptime parses to a time
\* `age` days ago, or one it does not parse ("" when the key is missing).
SavedProfiles ==
    [hardware   : [total_ram : {8192 - RamTolerance - 1, 8192,
                                8192 + RamTolerance, 8192 + RamTolerance + 1},
                   cpu_model : {"a", "b"}, gpu_model : {"g", "h"},
                   has_cuda : BOOLEAN, has_rocm : BOOLEAN],
     updated_at : {[parses |-> FALSE, age |-> 0]}
                  \cup [parses : {TRUE}, age : {0, MaxAgeDays, MaxAgeDays + 1}]]

\* _is_profile_outdated with >= in the RAM test.
is_profile_outdated_ge(profile) ==
    LET current_hw == detect_hardware
        profile_hw == profile.hardware
        diff == current_hw.total_ram - profile_hw.total_ram
    IN  IF \/ (IF diff < 0 THEN -diff ELSE diff) >= RamTolerance
           \/ current_hw.cpu_model # profile_hw.cpu_model
           \/ current_hw.gpu_model # profile_hw.gpu_model
           \/ current_hw.has_cuda # profile_hw.has_cuda
           \/ current_hw.has_rocm # profile_hw.has_rocm
        THEN TRUE
        ELSE IF ~profile.updated_at.parses THEN TRUE
        ELSE profile.updated_at.age > MaxAgeDays

\* HardwareOptimizer._is_profile_outdated: the hardware test, then the age
\* of updated_at, with `except: return True` around the parsing.
is_profile_outdated(profile) ==
    LET current_hw == detect_hardware
        profile_hw == profile.hardware
        diff == current_hw.total_ram - profile_hw.total_ram
    IN  IF \/ (IF diff < 0 THEN -diff ELSE diff) > RamTolerance
           \/ current_hw.cpu_model # profile_hw.cpu_model
           \/ current_hw.gpu_model # profile_hw.gpu_model
           \/ current_hw.has_cuda # profile_hw.has_cuda
           \/ current_hw.has_rocm # profile_hw.has_rocm
        THEN TRUE
        ELSE IF ~profile.updated_at.parses THEN TRUE
        ELSE profile.updated_at.age > MaxAgeDays

\* HardwareOptimizer.__init__ -> _load_or_create_profile. A file that exists
\* is read with json.load: a complete document gives the profile, which is
\* kept if it is not outdated; an outdated profile, a document json.load
\* cannot parse, and no file at all each lead to _update_hardware_profile,
\* which ends in _save_profile.
load_or_create_profile(i) ==
    LET file == optimizer.file
        outdated == IF file.written = "all" THEN is_profile_outdated(file.profile)
                    ELSE FALSE
    IN  /\ optimizer.inst[i].pc = "new"
        /\ optimizer' =
             [optimizer EXCEPT !.inst[i] =
                 [pc       |-> IF file.written = "all" /\ ~outdated
                               THEN "done" ELSE "save",
                  read     |-> file.written,
                  loaded   |-> IF file.written = "all" THEN file.profile
                               ELSE FreshProfile,
                  outdated |-> outdated]]
        /\ Untouched("optimizer")

\* _save_profile: open(self.profile_path, 'w') creates or truncates the file.
SaveOpen(i) ==
    /\ optimizer.inst[i].pc = "save"
    /\ optimizer' = [optimizer EXCEPT !.inst[i].pc = "write",
                                      !.file = [written |-> "none",
                                                profile |-> FreshProfile]]
    /\ Untouched("optimizer")

\* _save_profile: json.dump has written a part of the document to the file.
SaveWrite(i) ==
    /\ optimizer.inst[i].pc = "write"
    /\ optimizer.file.written = "none"
    /\ optimizer' = [optimizer EXCEPT !.file.written = "part"]
    /\ Untouched("optimizer")

\* _save_profile: the rest is written and the file is closed.
SaveClose(i) ==
    /\ optimizer.inst[i].pc = "write"
    /\ optimizer' = [optimizer EXCEPT !.inst[i].pc = "saved",
                                      !.file = [written |-> "all",
                                                profile |-> FreshProfile]]
    /\ Untouched("optimizer")

\* No run_benchmark call is followed.
NoBenchmark ==
    [pc |-> "idle", process |-> "none", iterations |-> 0, requests_found |-> TRUE,
     results |-> <<>>]

\* The profile file as it is found (none, or a complete document) and
\* NumInstances optimizers about to be constructed over it.
InitProfile ==
    /\ Rest("optimizer")
    /\ \E file \in {[written |-> "absent", profile |-> FreshProfile]}
                   \cup [written : {"all"}, profile : SavedProfiles] :
          optimizer = [file  |-> file,
                       inst  |-> [i \in 1..NumInstances |->
                                     [pc |-> "new", read |-> "unread",
                                      loaded |-> FreshProfile, outdated |-> FALSE]],
                       bench |-> NoBenchmark]

NextProfile ==
    \/ \E i \in 1..NumInstances : load_or_create_profile(i)
    \/ \E i \in 1..NumInstances : SaveOpen(i)
    \/ \E i \in 1..NumInstances : SaveWrite(i)
    \/ \E i \in 1..NumInstances : SaveClose(i)

SpecProfile == InitProfile /\ [][NextProfile]_vars

\* The five conditions of the staleness rule, on a loaded profile.
StalenessRule(profile) ==
    LET diff == detect_hardware.total_ram - profile.hardware.total_ram
    IN  \/ diff > 1024 \/ -diff > 1024
        \/ detect_hardware.cpu_model # profile.hardware.cpu_model
        \/ detect_hardware.gpu_model # profile.hardware.gpu_model
        \/ detect_hardware.has_cuda # profile.hardware.has_cuda
        \/ detect_hardware.has_rocm # profile.hardware.has_rocm
        \/ (profile.updated_at.parses /\ profile.updated_at.age > 30)

C23_ProfileAtomicity ==
    \A i \in 1..NumInstances : optimizer.inst[i].read \in {"unread", "absent", "all"}

\* ------------------------------------------------------------ run_benchmark

\* Largest `iterations` argument of run_benchmark.
MaxIterations == 3

\* run_benchmark up to its loop: the server executable is looked up (none:
\* return), subprocess.Popen starts the server, and `import requests` runs
\* inside the outer try: when it fails the outer except branch calls
\* server_process.terminate() and returns.
BenchStart(found) ==
    LET b == optimizer.bench
    IN  /\ b.pc = "idle"
        /\ optimizer' =
             [optimizer EXCEPT !.bench =
                 IF ~found THEN [b EXCEPT !.pc = "returned"]
                 ELSE IF ~b.requests_found
                 THEN [b EXCEPT !.pc = "returned", !.process = "signalled"]
                 ELSE [b EXCEPT !.pc = "loop", !.process = "running"]]
        /\ Untouched("optimizer")

\* One iteration of the loop: the request succeeds, is answered with another
\* status, or raises an Exception (caught inside the loop); or the call is
\* interrupted (KeyboardInterrupt is no Exception: neither except branch
\* catches it and run_benchmark is left at once).
BenchIteration(outcome) ==
    LET b == optimizer.bench
    IN  /\ b.pc = "loop"
        /\ Len(b.results) < b.iterations
        /\ optimizer' =
             [optimizer EXCEPT !.bench =
                 IF outcome = "interrupt" THEN [b EXCEPT !.pc = "returned"]
                 ELSE [b EXCEPT !.results = Append(@, outcome)]]
        /\ Untouched("optimizer")

\* After the loop: server_process.terminate(), wait(timeout=5), kill() when
\* the wait times out; then the result is added to the profile, which is
\* saved, and returned.
BenchShutdown(exits_in_time) ==
    LET b == optimizer.bench
    IN  /\ b.pc = "loop"
        /\ Len(b.results) = b.iterations
        /\ optimizer' =
             [optimizer EXCEPT !.bench = [b EXCEPT !.pc = "returned",
                                                   !.process = IF exits_in_time THEN "exited"
                                                               ELSE "killed"],
                               !.file = [written |-> "all", profile |-> FreshProfile]]
        /\ Untouched("optimizer")

\* run_benchmark(model_path, iterations = n) is about to be called on a
\* constructed optimizer; whether `requests` can be imported is given.
InitBenchmark ==
    /\ Rest("optimizer")
    /\ \E n \in 1..MaxIterations, requests_found \in BOOLEAN :
          optimizer = [file  |-> [written |-> "all", profile |-> FreshProfile],
                       inst  |-> [i \in 1..NumInstances |->
                                     [pc |-> "saved", read |-> "absent",
                                      loaded |-> FreshProfile, outdated |-> FALSE]],
                       bench |-> [NoBenchmark EXCEPT !.iterations = n,
                                                     !.requests_found = requests_found]]

NextBenchmark ==
    \/ \E found \in BOOLEAN : BenchStart(found)
    \/ \E outcome \in {"ok", "status", "exception", "interrupt"} : BenchIteration(outcome)
    \/ \E exits_in_time \in BOOLEAN : BenchShutdown(exits_in_time)

SpecBenchmark == InitBenchmark /\ [][NextBenchmark]_vars

\* C26: on every exit path of run_benchmark after the server process has
\* been started, the process has been terminated and has exited (waited for
\* or killed) before run_benchmark returns.
C26_BenchmarkShutdown ==
    (optimizer.bench.pc = "returned" /\ optimizer.bench.process # "none")
        => optimizer.bench.process \in {"exited", "killed"}

====
